---------------------------- MODULE Spec2Model ----------------------------
(***************************************************************************)
(* Model of clintrovert/gobackend:                                         *)
(*   - authn.GcpIdentifyPlatformAuthenticator (constructor, Authenticate)  *)
(*   - gcputils.NewM2MServiceAccount  (identity + key, with rollback)      *)
(*   - gcputils.grantRolesToServiceAccount (policy read-modify-write)      *)
(* Go strings whose characters matter (TrimSpace, concatenation) are       *)
(* sequences of one-character strings.                                     *)
(***************************************************************************)
EXTENDS Integers, Sequences, FiniteSets, TLC

\* ------------------------------------------------------------------ bounds
MaxIdLen == 2        \* longest project id tried
MaxAudLen == 1       \* longest expected audience tried
MaxBindings == 1     \* bindings in an initial remote policy
MaxMembers == 1      \* members in a binding of an initial remote policy
MaxRoleList == 2     \* length of the role list passed to a grant
MaxFields == 2       \* fields of a struct handed to Unmarshal

\* ---------------------------------------------------------------- helpers
Nil == "nil"

SeqsUpTo(S, n) == UNION {[1..k -> S] : k \in 0..n}

Range(s) == {s[i] : i \in DOMAIN s}

IsPrefix(s, t) == Len(s) <= Len(t) /\ SubSeq(t, 1, Len(s)) = s

\* a Go value that may be nil: <<>> for nil, <<x>> for x
None == <<>>
Some(x) == <<x>>

VARIABLES
    \* ---- authn
    authr,      \* the constructed authenticator, or Nil
    consErr,    \* error returned by the constructor ("none" before it ran)
    aconf,      \* the configuration the constructor was called with
    mapHeap,    \* content of the publicMethods map object (Go maps are references)
    apc,        \* position of the running Authenticate call
    actx,       \* the context passed to Authenticate
    avalidator, \* outcome of idtoken.NewValidator for this call
    atoken,     \* token extracted by auth.AuthFromMD
    apayload,   \* payload returned by validator.Validate
    aret,       \* (context, error) returned by Authenticate
    acalls,     \* library calls made by the running Authenticate, in order
    \* ---- NewM2MServiceAccount
    ppc,        \* position of the running NewM2MServiceAccount call
    pargs,      \* its arguments
    createdSA,  \* service account returned by CreateServiceAccount
    generatedKey, \* key returned by CreateServiceAccountKey
    pkeyErr,    \* error of CreateServiceAccountKey (Nil when it succeeded)
    pret,       \* (credential, error) returned
    pcalls,     \* IAM admin calls issued by this run, in order
    plog,       \* slog.Error records written by this run
    identities, \* service accounts existing in the remote service
    keys,       \* keys existing in the remote service
    \* ---- grantRolesToServiceAccount
    gpc,        \* position of the running grant
    gargs,      \* its arguments
    policy,     \* the local policy object (fetched, then mutated)
    fetched,    \* copy of the policy as GetIamPolicy returned it
    gret,       \* error returned
    gcalls,     \* IAM policy calls issued by this run, in order
    remotePolicy, \* the policy stored in the remote service
    prev,       \* arguments and written bindings of the run that has just
                \* succeeded, for a caller that repeats it
    overwritten, \* the remote policy that this run's SetIamPolicy replaced
    \* ---- environ.Unmarshal
    upc,        \* position of the running Unmarshal call
    cfgType,    \* the fields of the struct, as reflect.Type describes them
    cfgVal,     \* the values the fields of the struct hold
    osEnv,      \* the process environment
    fieldIdx,   \* the loop variable i (fields are numbered from 1 here)
    errs,       \* the errors collected so far
    uret        \* the error returned

authVars == <<authr, consErr, aconf, mapHeap, apc, actx, avalidator, atoken,
              apayload, aret, acalls>>
provVars == <<ppc, pargs, createdSA, generatedKey, pkeyErr, pret, pcalls, plog,
              identities, keys>>
grantVars == <<gpc, gargs, policy, fetched, gret, gcalls, remotePolicy,
               prev, overwritten>>
envVars == <<upc, cfgType, cfgVal, osEnv, fieldIdx, errs, uret>>
vars == <<authVars, provVars, grantVars, envVars>>


\* =================================================================== authn
\* const ClaimsContextKey = "jwt_claims"
ClaimsContextKey == "jwt_claims"

\* the literal "https://securetoken.google.com/" of the constructor, kept as
\* one symbol of the string
IssuerPrefix == <<"https://securetoken.google.com/">>

IdChars == {" ", "\t", "p"}
AudChars == {" ", "a"}
ProjectIds == SeqsUpTo(IdChars, MaxIdLen)
Audiences == SeqsUpTo(AudChars, MaxAudLen)

Methods == {"/svc/A", "/svc/B"}
NoMethod == "no-method"          \* grpc.Method(ctx) reports ok = false

\* map[string]bool values handed to the constructor
PublicMaps == UNION {[D -> BOOLEAN] : D \in SUBSET Methods}
MapRef == "map0"                 \* the one map object of the model

\* unicode.IsSpace, for the characters of the model
IsSpace(c) == c \in {" ", "\t", "\n", "\r"}

RECURSIVE TrimLeft(_)
TrimLeft(s) ==
    IF s = <<>> THEN <<>>
    ELSE IF IsSpace(Head(s)) THEN TrimLeft(Tail(s)) ELSE s

RECURSIVE TrimRight(_)
TrimRight(s) ==
    IF s = <<>> THEN <<>>
    ELSE IF IsSpace(s[Len(s)]) THEN TrimRight(SubSeq(s, 1, Len(s) - 1)) ELSE s

TrimSpace_OnlyEmpty(s) == s

\* strings.TrimSpace
TrimSpace(s) == TrimRight(TrimLeft(s))

\* ---- tokens and the validator (google.golang.org/api/idtoken)
\* payload.Claims is opaque to the code: a claim set is named by a string
ClaimSets == {"claims-alice", "claims-bob"}
TokenIssuers == {IssuerPrefix \o <<"p">>, IssuerPrefix \o <<" ", "p">>,
                 <<"https://accounts.example/">>}
TokenAudiences == {<<"a">>, <<"other">>}
Tokens == [aud : TokenAudiences, iss : TokenIssuers, good : BOOLEAN,
           claims : ClaimSets]

\* validator.Validate(ctx, token, audience): the payload, or an error when the
\* signature/expiry is bad or the token was minted for another audience
Validate(token, audience) ==
    IF token.good /\ token.aud = audience
    THEN [err |-> Nil, Issuer |-> token.iss, Claims |-> token.claims]
    ELSE [err |-> "idtoken: invalid", Issuer |-> <<>>, Claims |-> Nil]

\* ---- call contexts
Schemes == {"Bearer", "basic"}
Lower(x) == IF x = "Bearer" THEN "bearer" ELSE x
EqualFold(x, y) == Lower(x) = Lower(y)

\* the "authorization" metadata of a call: absent, a value without a space,
\* or "<scheme> <token>"
Headers == {[kind |-> "absent"], [kind |-> "nospace"]}
           \cup [kind : {"pair"}, scheme : Schemes, token : Tokens]

CtxKeys == {ClaimsContextKey, "trace_id"}
CtxValues == [CtxKeys -> {Nil, "v"}]
Contexts == [method : Methods \cup {NoMethod}, header : Headers,
             values : CtxValues]

\* grpc.Method(ctx)
GrpcMethod(ctx) == [method |-> ctx.method, ok |-> ctx.method # NoMethod]

\* auth.AuthFromMD(ctx, "bearer") of go-grpc-middleware
AuthFromMD(ctx, expectedScheme) ==
    IF ctx.header.kind = "pair" /\ EqualFold(ctx.header.scheme, expectedScheme)
    THEN [err |-> Nil, token |-> ctx.header.token]
    ELSE [err |-> "Unauthenticated", token |-> Nil]

WithValue_DropsOthers(ctx, key, val) ==
    [ctx EXCEPT !.values = [k \in CtxKeys |-> IF k = key THEN val ELSE Nil]]

\* context.WithValue(ctx, key, val)
WithValue(ctx, key, val) == [ctx EXCEPT !.values[key] = val]

\* status.Error(code, msg)
StatusError(code, msg) == [code |-> code, msg |-> msg]

\* ---- NewGcpIdentityPlatformValidator
NewGcpIdentityPlatformValidator(conf, publicMethods) ==
    IF TrimSpace(conf.GcpProjectId) = <<>>
    THEN [authr |-> None, err |-> "ErrProjectIdMissing"]
    ELSE IF TrimSpace(conf.ExpectedAudience) = <<>>
    THEN [authr |-> None, err |-> "ErrExpectedAudMissing"]
    ELSE [authr |-> Some([expectedIssuer |-> IssuerPrefix \o conf.GcpProjectId,
                          expectedAudience |-> conf.ExpectedAudience,
                          publicMethods |-> publicMethods]),
          err |-> Nil]

Configs == [GcpProjectId : ProjectIds, ExpectedAudience : Audiences]

Construct ==
    /\ consErr = "none"
    /\ \E conf \in Configs :
         LET r == NewGcpIdentityPlatformValidator(conf, MapRef)
         IN /\ authr' = r.authr
            /\ consErr' = r.err
            /\ aconf' = conf
    /\ UNCHANGED <<mapHeap, apc, actx, avalidator, atoken, apayload, aret,
                   acalls>>
    /\ UNCHANGED <<provVars, grantVars, envVars>>

IsPublic_ByValue(v, method) ==
    /\ method \in DOMAIN mapHeap[v.publicMethods]
    /\ mapHeap[v.publicMethods][method]

\* _, isPublic := v.publicMethods[method]: key presence, read through the
\* map reference
IsPublic(v, method) == method \in DOMAIN mapHeap[v.publicMethods]

NoErr == [code |-> "OK", msg |-> ""]          \* a nil error
Returned(ctx, err) == [ctx |-> ctx, err |-> err, returned |-> TRUE]
NoRet == [ctx |-> None, err |-> NoErr, returned |-> FALSE]

\* lines 79-85: resolve the method, bypass for public methods
AuthBegin ==
    /\ authr # None
    /\ apc = "idle"
    /\ \E ctx \in Contexts :
         LET m == GrpcMethod(ctx)
         IN /\ actx' = ctx
            /\ acalls' = <<>>
            /\ IF m.ok /\ IsPublic(authr[1], m.method)
               THEN /\ aret' = Returned(Some(ctx), NoErr)
                    /\ apc' = "done"
               ELSE /\ aret' = NoRet
                    /\ apc' = "extract"
    /\ UNCHANGED <<authr, consErr, aconf, mapHeap, avalidator, atoken, apayload>>
    /\ UNCHANGED <<provVars, grantVars, envVars>>

\* lines 87-97: auth.AuthFromMD
AuthExtract ==
    /\ apc = "extract"
    /\ LET r == AuthFromMD(actx, "bearer")
       IN /\ acalls' = Append(acalls, "AuthFromMD")
          /\ IF r.err # Nil
             THEN /\ aret' = Returned(None, StatusError("Unauthenticated", "Authorization token not provided"))
                  /\ apc' = "done"
                  /\ atoken' = atoken
             ELSE /\ atoken' = r.token
                  /\ apc' = "newValidator"
                  /\ aret' = aret
    /\ UNCHANGED <<authr, consErr, aconf, mapHeap, actx, avalidator, apayload>>
    /\ UNCHANGED <<provVars, grantVars, envVars>>

\* lines 99-107: idtoken.NewValidator, which may fail
AuthNewValidator ==
    /\ apc = "newValidator"
    /\ acalls' = Append(acalls, "NewValidator")
    /\ \E ok \in BOOLEAN :
         IF ok
         THEN /\ avalidator' = "validator"
              /\ apc' = "validate"
              /\ aret' = aret
         ELSE /\ avalidator' = Nil
              /\ aret' = Returned(None, StatusError("Internal", "Authentication service error"))
              /\ apc' = "done"
    /\ UNCHANGED <<authr, consErr, aconf, mapHeap, actx, atoken, apayload>>
    /\ UNCHANGED <<provVars, grantVars, envVars>>

AuthValidate_Internal ==
    /\ apc = "validate"
    /\ acalls' = Append(acalls, "Validate")
    /\ LET r == Validate(atoken, authr[1].expectedAudience)
       IN IF r.err # Nil
          THEN /\ aret' = Returned(None, StatusError("Internal",
                                    "Authentication service error"))
               /\ apc' = "done"
               /\ apayload' = apayload
          ELSE /\ apayload' = [Issuer |-> r.Issuer, Claims |-> r.Claims]
               /\ apc' = "issuer"
               /\ aret' = aret
    /\ UNCHANGED <<authr, consErr, aconf, mapHeap, actx, avalidator, atoken>>
    /\ UNCHANGED <<provVars, grantVars, envVars>>

\* lines 109-119: validator.Validate against the expected audience
AuthValidate ==
    /\ apc = "validate"
    /\ acalls' = Append(acalls, "Validate")
    /\ LET r == Validate(atoken, authr[1].expectedAudience)
       IN IF r.err # Nil
          THEN /\ aret' = Returned(None, StatusError("Unauthenticated", "Invalid authentication token"))
               /\ apc' = "done"
               /\ apayload' = apayload
          ELSE /\ apayload' = [Issuer |-> r.Issuer, Claims |-> r.Claims]
               /\ apc' = "issuer"
               /\ aret' = aret
    /\ UNCHANGED <<authr, consErr, aconf, mapHeap, actx, avalidator, atoken>>
    /\ UNCHANGED <<provVars, grantVars, envVars>>

AuthCheckIssuer_Skipped ==
    /\ apc = "issuer"
    /\ aret' = Returned(Some(WithValue(actx, ClaimsContextKey,
                                       apayload.Claims)), NoErr)
    /\ apc' = "done"
    /\ UNCHANGED <<authr, consErr, aconf, mapHeap, actx, avalidator, atoken,
                   apayload, acalls>>
    /\ UNCHANGED <<provVars, grantVars, envVars>>

\* lines 121-136: issuer comparison, then the claims are attached
AuthCheckIssuer ==
    /\ apc = "issuer"
    /\ IF apayload.Issuer # authr[1].expectedIssuer
       THEN aret' = Returned(None, StatusError("Unauthenticated", "Invalid token issuer"))
       ELSE aret' = Returned(Some(WithValue(actx, ClaimsContextKey,
                                             apayload.Claims)), NoErr)
    /\ apc' = "done"
    /\ UNCHANGED <<authr, consErr, aconf, mapHeap, actx, avalidator, atoken,
                   apayload, acalls>>
    /\ UNCHANGED <<provVars, grantVars, envVars>>

\* the call has returned; the interceptor is ready for the next call
AuthReturn ==
    /\ apc = "done"
    /\ apc' = "idle"
    /\ actx' = Nil
    /\ avalidator' = Nil
    /\ atoken' = Nil
    /\ apayload' = Nil
    /\ aret' = NoRet
    /\ acalls' = <<>>
    /\ UNCHANGED <<authr, consErr, aconf, mapHeap>>
    /\ UNCHANGED <<provVars, grantVars, envVars>>

\* the caller of the constructor still holds the map it passed in and sets
\* or deletes entries of it (publicMethods[k] = b, delete(publicMethods, k))
CallerMutatesMap ==
    /\ \E pm \in PublicMaps :
         /\ pm # mapHeap[MapRef]
         /\ mapHeap' = [mapHeap EXCEPT ![MapRef] = pm]
    /\ UNCHANGED <<authr, consErr, aconf, apc, actx, avalidator, atoken,
                   apayload, aret, acalls>>
    /\ UNCHANGED <<provVars, grantVars, envVars>>

AuthIdle ==
    /\ apc = "idle" /\ actx = Nil /\ avalidator = Nil /\ atoken = Nil
    /\ apayload = Nil /\ aret = NoRet /\ acalls = <<>>

\* ==================================================== NewM2MServiceAccount
ProjectIDs == {"proj-1"}
ClientIDs == {"client-1", "client-2"}
DisplayNames == {"Billing", "Reports"}
ProvArgs == [projectID : ProjectIDs, clientID : ClientIDs,
             displayName : DisplayNames]

\* private key bytes the remote service may hand out
KeyMaterials == {<<45, 75>>, <<45, 75, 10>>}

\* causes with which the remote calls may fail
ClientErrs == {"no credentials"}
CreateErrs == {"AlreadyExists", "Unavailable"}
KeyErrs == {"FailedPrecondition", "DeadlineExceeded"}
DeleteErrs == {"PermissionDenied", "Canceled"}

\* fmt.Errorf("<op>: %w", err)
Wrap(op, cause) == [op |-> op, cause |-> cause]
NoPErr == [op |-> "", cause |-> ""]           \* a nil error
NoPRet == [cred |-> None, err |-> NoPErr, returned |-> FALSE]

\* fmt.Sprintf("projects/%s", projectID)
SaParent(projectID) == <<"projects/", projectID>>

\* the service account the remote service creates for a request
RemoteSA(req) ==
    [Name |-> req.Name \o <<"/serviceAccounts/", req.AccountId>>,
     Email |-> <<req.AccountId, "@", req.Name[2], ".iam.gserviceaccount.com">>,
     DisplayName |-> req.ServiceAccount.DisplayName,
     Description |-> req.ServiceAccount.Description]

\* the key the remote service creates for a request
RemoteKey(req, n, material) ==
    [Name |-> req.Name \o <<"/keys/", n>>,
     KeyAlgorithm |-> req.KeyAlgorithm,
     PrivateKeyType |-> req.PrivateKeyType,
     PrivateKeyData |-> material]

\* lines 42-49
SaRequest(args) ==
    [Name |-> SaParent(args.projectID),
     ServiceAccount |->
        [DisplayName |-> args.displayName,
         Description |-> <<"M2M client SA for ", args.clientID>>],
     AccountId |-> args.clientID]

\* lines 63-68
KeyRequest(sa) ==
    [Name |-> sa.Name,
     KeyAlgorithm |-> "KEY_ALG_RSA_2048",
     PrivateKeyType |-> "TYPE_GOOGLE_CREDENTIALS_FILE"]

\* string(b) for a []byte: the same bytes
BytesToString(b) == [i \in DOMAIN b |-> b[i]]

M2MServiceAccount_KeyIdOfAccount(sa, key, clientID) ==
    [Email |-> sa.Email,
     PrivateKey |-> BytesToString(key.PrivateKeyData),
     KeyID |-> sa.Name,
     DisplayName |-> sa.DisplayName,
     ServiceAccountID |-> clientID]

\* lines 91-97
M2MServiceAccount(sa, key, clientID) ==
    [Email |-> sa.Email,
     PrivateKey |-> BytesToString(key.PrivateKeyData),
     KeyID |-> key.Name,
     DisplayName |-> sa.DisplayName,
     ServiceAccountID |-> clientID]

PReturned(cred, err) == [cred |-> cred, err |-> err, returned |-> TRUE]

Call(op, target) == [op |-> op, target |-> target]

\* the call is entered with its arguments
ProvBegin ==
    /\ ppc = "idle"
    /\ \E args \in ProvArgs : pargs' = Some(args)
    /\ ppc' = "client"
    /\ UNCHANGED <<createdSA, generatedKey, pkeyErr, pret, pcalls, plog,
                   identities, keys>>
    /\ UNCHANGED <<authVars, grantVars, envVars>>

\* lines 35-39: iamadmin.NewIamClient
ProvNewClient ==
    /\ ppc = "client"
    /\ \/ /\ ppc' = "createSA"
          /\ pret' = pret
       \/ /\ \E e \in ClientErrs :
               pret' = PReturned(None, Wrap("iamadmin.NewIAMClient", e))
          /\ ppc' = "done"
    /\ UNCHANGED <<pargs, createdSA, generatedKey, pkeyErr, pcalls, plog,
                   identities, keys>>
    /\ UNCHANGED <<authVars, grantVars, envVars>>

\* lines 51-59: CreateServiceAccount; the remote service refuses an account
\* id that exists and may fail for other reasons
ProvCreateSA ==
    /\ ppc = "createSA"
    /\ LET req == SaRequest(pargs[1])
           sa == RemoteSA(req)
       IN /\ pcalls' = Append(pcalls, Call("CreateServiceAccount", sa.Name))
          /\ \/ /\ \A x \in identities : x.Name # sa.Name
                /\ identities' = identities \cup {sa}
                /\ createdSA' = Some(sa)
                /\ ppc' = "createKey"
                /\ pret' = pret
             \/ /\ \E e \in CreateErrs :
                     /\ e = "AlreadyExists" =>
                          \E x \in identities : x.Name = sa.Name
                     /\ pret' = PReturned(None, Wrap("CreateServiceAccount", e))
                /\ ppc' = "done"
                /\ UNCHANGED <<identities, createdSA>>
    /\ UNCHANGED <<pargs, generatedKey, pkeyErr, plog, keys>>
    /\ UNCHANGED <<authVars, grantVars, envVars>>

ProvCreateKey_RetriesOnce ==
    /\ ppc = "createKey"
    /\ LET req == KeyRequest(createdSA[1])
       IN /\ pcalls' = Append(pcalls, Call("CreateServiceAccountKey", req.Name))
          /\ \/ /\ \E material \in KeyMaterials :
                     LET key == RemoteKey(req, Cardinality(keys) + 1, material)
                     IN /\ keys' = keys \cup {key}
                        /\ generatedKey' = Some(key)
                        /\ pret' = PReturned(
                                     Some(M2MServiceAccount(createdSA[1], key,
                                                            pargs[1].clientID)),
                                     NoPErr)
                /\ ppc' = "done"
                /\ pkeyErr' = pkeyErr
             \/ /\ \E e \in KeyErrs : pkeyErr' = e
                /\ ppc' = IF Len(pcalls) < 2 THEN "createKey" ELSE "cleanup"
                /\ UNCHANGED <<keys, generatedKey, pret>>
    /\ UNCHANGED <<pargs, createdSA, plog, identities>>
    /\ UNCHANGED <<authVars, grantVars, envVars>>

\* lines 63-71 and 86-97: CreateServiceAccountKey; on success the credential
\* is returned
ProvCreateKey ==
    /\ ppc = "createKey"
    /\ LET req == KeyRequest(createdSA[1])
       IN /\ pcalls' = Append(pcalls, Call("CreateServiceAccountKey", req.Name))
          /\ \/ /\ \E material \in KeyMaterials :
                     LET key == RemoteKey(req, Cardinality(keys) + 1, material)
                     IN /\ keys' = keys \cup {key}
                        /\ generatedKey' = Some(key)
                        /\ pret' = PReturned(
                                     Some(M2MServiceAccount(createdSA[1], key,
                                                            pargs[1].clientID)),
                                     NoPErr)
                /\ ppc' = "done"
                /\ pkeyErr' = pkeyErr
             \/ /\ \E e \in KeyErrs : pkeyErr' = e
                /\ ppc' = "cleanup"
                /\ UNCHANGED <<keys, generatedKey, pret>>
    /\ UNCHANGED <<pargs, createdSA, plog, identities>>
    /\ UNCHANGED <<authVars, grantVars, envVars>>

ProvCleanup_SilentFailure ==
    /\ ppc = "cleanup"
    /\ pcalls' = Append(pcalls,
                        Call("DeleteServiceAccount", createdSA[1].Name))
    /\ \/ identities' = identities \ {createdSA[1]}
       \/ identities' = identities
    /\ plog' = plog
    /\ pret' = PReturned(None, Wrap("CreateServiceAccountKey", pkeyErr))
    /\ ppc' = "done"
    /\ UNCHANGED <<pargs, createdSA, generatedKey, pkeyErr, keys>>
    /\ UNCHANGED <<authVars, grantVars, envVars>>

ProvCleanup_DeleteErrorWins ==
    /\ ppc = "cleanup"
    /\ pcalls' = Append(pcalls,
                        Call("DeleteServiceAccount", createdSA[1].Name))
    /\ \/ /\ identities' = identities \ {createdSA[1]}
          /\ plog' = plog
          /\ pret' = PReturned(None, Wrap("CreateServiceAccountKey", pkeyErr))
       \/ /\ \E delErr \in DeleteErrs :
               /\ plog' = Append(plog,
                            [msg |-> "Failed to clean up service account",
                             account |-> createdSA[1].Email,
                             error |-> delErr])
               /\ pret' = PReturned(None, Wrap("DeleteServiceAccount", delErr))
          /\ identities' = identities
    /\ ppc' = "done"
    /\ UNCHANGED <<pargs, createdSA, generatedKey, pkeyErr, keys>>
    /\ UNCHANGED <<authVars, grantVars, envVars>>

\* lines 72-84: the compensating DeleteServiceAccount; its failure is logged
\* and the key-creation error is returned
ProvCleanup ==
    /\ ppc = "cleanup"
    /\ pcalls' = Append(pcalls,
                        Call("DeleteServiceAccount", createdSA[1].Name))
    /\ \/ /\ identities' = identities \ {createdSA[1]}
          /\ plog' = plog
       \/ /\ \E delErr \in DeleteErrs :
               plog' = Append(plog,
                         [msg |-> "Failed to clean up service account",
                          account |-> createdSA[1].Email,
                          error |-> delErr])
          /\ identities' = identities
    /\ pret' = PReturned(None, Wrap("CreateServiceAccountKey", pkeyErr))
    /\ ppc' = "done"
    /\ UNCHANGED <<pargs, createdSA, generatedKey, pkeyErr, keys>>
    /\ UNCHANGED <<authVars, grantVars, envVars>>

\* the call has returned; its locals are gone, the remote service keeps its
\* accounts and keys
ProvReturn ==
    /\ ppc = "done"
    /\ ppc' = "idle"
    /\ pargs' = None
    /\ createdSA' = None
    /\ generatedKey' = None
    /\ pkeyErr' = Nil
    /\ pret' = NoPRet
    /\ pcalls' = <<>>
    /\ plog' = <<>>
    /\ UNCHANGED <<identities, keys>>
    /\ UNCHANGED <<authVars, grantVars, envVars>>

ProvIdle ==
    /\ ppc = "idle" /\ pargs = None /\ createdSA = None
    /\ generatedKey = None /\ pkeyErr = Nil
    /\ pret = NoPRet /\ pcalls = <<>> /\ plog = <<>>
    /\ identities = {} /\ keys = {}

\* =============================================== grantRolesToServiceAccount
Roles == {"roles/viewer", "roles/editor"}
Emails == {"sa-1@proj-1", "sa-2@proj-1"}

\* fmt.Sprintf("serviceAccount:%s", serviceAccountEmail)
Member(email) == <<"serviceAccount:", email>>

\* principals found in the policies the remote service starts with
PolicyMembers == {Member("sa-1@proj-1"), <<"user:", "bob">>}

\* iampb.Binding and iampb.Policy
Bindings == [Role : Roles, Members : SeqsUpTo(PolicyMembers, MaxMembers)]
Policies == [Bindings : SeqsUpTo(Bindings, MaxBindings), Etag : {0}]

GrantArgs == [projectID : ProjectIDs, serviceAccountEmail : Emails,
              roles : SeqsUpTo(Roles, MaxRoleList)]

GetErrs == {"PermissionDenied"}
SetErrs == {"Aborted"}

NoGRet == [err |-> NoPErr, returned |-> FALSE]
GReturned(err) == [err |-> err, returned |-> TRUE]

AddMember_Replaces(members, member) == <<member>>

\* lines 131-140: the members of a binding after the member is granted
AddMember_Always(members, member) == Append(members, member)

AddMember(members, member) ==
    IF \E i \in DOMAIN members : members[i] = member
    THEN members
    ELSE Append(members, member)

FirstBinding_NeverFound(bindings, roleName) == 0

\* lines 128-144: index of the first binding of the role, 0 when none
FirstBinding(bindings, roleName) ==
    IF \E i \in DOMAIN bindings : bindings[i].Role = roleName
    THEN CHOOSE i \in DOMAIN bindings :
           /\ bindings[i].Role = roleName
           /\ \A j \in 1..(i - 1) : bindings[j].Role # roleName
    ELSE 0

GrantRole_NewFirst(bindings, member, roleName) ==
    LET i == FirstBinding(bindings, roleName)
    IN IF i # 0
       THEN [bindings EXCEPT ![i].Members = AddMember(@, member)]
       ELSE <<[Role |-> roleName, Members |-> <<member>>]>> \o bindings

\* lines 127-150: one iteration of the loop over roles
GrantRole(bindings, member, roleName) ==
    LET i == FirstBinding(bindings, roleName)
    IN IF i # 0
       THEN [bindings EXCEPT ![i].Members = AddMember(@, member)]
       ELSE Append(bindings, [Role |-> roleName, Members |-> <<member>>])

\* lines 126-151: the loop over roles, in the order given
RECURSIVE GrantRoles(_, _, _)
GrantRoles(bindings, member, roles) ==
    IF roles = <<>> THEN bindings
    ELSE GrantRoles(GrantRole(bindings, member, Head(roles)), member,
                    Tail(roles))

\* the call is entered with fresh arguments
GrantBegin ==
    /\ gpc = "idle"
    /\ \E args \in GrantArgs : gargs' = Some(args)
    /\ prev' = None
    /\ gpc' = "client"
    /\ UNCHANGED <<policy, fetched, gret, gcalls, remotePolicy, overwritten>>
    /\ UNCHANGED <<authVars, provVars, envVars>>

\* the caller repeats the call that has just succeeded, same arguments
GrantAgain ==
    /\ gpc = "idle"
    /\ prev # None
    /\ gargs' = Some(prev[1].args)
    /\ gpc' = "client"
    /\ UNCHANGED <<policy, fetched, gret, gcalls, remotePolicy, prev,
                   overwritten>>
    /\ UNCHANGED <<authVars, provVars, envVars>>

\* lines 109-113: iampolicy.NewIamPolicyClient
GrantNewClient ==
    /\ gpc = "client"
    /\ \/ /\ gpc' = "get"
          /\ gret' = gret
       \/ /\ \E e \in ClientErrs :
               gret' = GReturned(Wrap("iampolicy.NewIamPolicyClient", e))
          /\ gpc' = "done"
    /\ UNCHANGED <<gargs, policy, fetched, gcalls, remotePolicy, prev,
                   overwritten>>
    /\ UNCHANGED <<authVars, provVars, envVars>>

\* lines 115-123: GetIamPolicy
GrantGetPolicy ==
    /\ gpc = "get"
    /\ gcalls' = Append(gcalls,
                        Call("GetIamPolicy", SaParent(gargs[1].projectID)))
    /\ \/ /\ policy' = Some(remotePolicy)
          /\ fetched' = Some(remotePolicy)
          /\ gpc' = "merge"
          /\ gret' = gret
       \/ /\ \E e \in GetErrs : gret' = GReturned(Wrap("GetIamPolicy", e))
          /\ gpc' = "done"
          /\ UNCHANGED <<policy, fetched>>
    /\ UNCHANGED <<gargs, remotePolicy, prev, overwritten>>
    /\ UNCHANGED <<authVars, provVars, envVars>>

GrantMerge_OntoRemote ==
    /\ gpc = "merge"
    /\ policy' = Some([remotePolicy EXCEPT !.Bindings =
                         GrantRoles(@, Member(gargs[1].serviceAccountEmail),
                                    gargs[1].roles)])
    /\ gpc' = "set"
    /\ UNCHANGED <<gargs, fetched, gret, gcalls, remotePolicy, prev,
                   overwritten>>
    /\ UNCHANGED <<authVars, provVars, envVars>>

\* lines 125-151: the member is merged into the local policy object
GrantMerge ==
    /\ gpc = "merge"
    /\ policy' = Some([policy[1] EXCEPT !.Bindings =
                         GrantRoles(@, Member(gargs[1].serviceAccountEmail),
                                    gargs[1].roles)])
    /\ gpc' = "set"
    /\ UNCHANGED <<gargs, fetched, gret, gcalls, remotePolicy, prev,
                   overwritten>>
    /\ UNCHANGED <<authVars, provVars, envVars>>

GrantSetPolicy_SkipsUnchanged ==
    /\ gpc = "set"
    /\ IF policy[1].Bindings = fetched[1].Bindings
       THEN /\ gret' = GReturned(NoPErr)
            /\ UNCHANGED <<gcalls, remotePolicy, overwritten>>
       ELSE /\ gcalls' = Append(gcalls,
                          Call("SetIamPolicy", SaParent(gargs[1].projectID)))
            /\ \/ /\ remotePolicy' = [Bindings |-> policy[1].Bindings,
                                      Etag |-> 1 - remotePolicy.Etag]
                  /\ overwritten' = Some(remotePolicy)
                  /\ gret' = GReturned(NoPErr)
               \/ /\ \E e \in SetErrs :
                       gret' = GReturned(Wrap("SetIamPolicy", e))
                  /\ remotePolicy' = remotePolicy
                  /\ overwritten' = overwritten
    /\ gpc' = "done"
    /\ UNCHANGED <<gargs, policy, fetched, prev>>
    /\ UNCHANGED <<authVars, provVars, envVars>>

\* lines 153-166: SetIamPolicy replaces the remote policy with the local
\* one; the remote service stamps an etag that differs from the one before
GrantSetPolicy ==
    /\ gpc = "set"
    /\ gcalls' = Append(gcalls,
                        Call("SetIamPolicy", SaParent(gargs[1].projectID)))
    /\ \/ /\ remotePolicy' = [Bindings |-> policy[1].Bindings,
                              Etag |-> 1 - remotePolicy.Etag]
          /\ overwritten' = Some(remotePolicy)
          /\ gret' = GReturned(NoPErr)
       \/ /\ \E e \in SetErrs : gret' = GReturned(Wrap("SetIamPolicy", e))
          /\ remotePolicy' = remotePolicy
          /\ overwritten' = overwritten
    /\ gpc' = "done"
    /\ UNCHANGED <<gargs, policy, fetched, prev>>
    /\ UNCHANGED <<authVars, provVars, envVars>>

\* the call has returned; its locals are gone
GrantReturn ==
    /\ gpc = "done"
    /\ gpc' = "idle"
    /\ prev' = IF gret.err = NoPErr
               THEN Some([args |-> gargs[1],
                          written |-> policy[1].Bindings])
               ELSE None
    /\ overwritten' = None
    /\ gargs' = None
    /\ policy' = None
    /\ fetched' = None
    /\ gret' = NoGRet
    /\ gcalls' = <<>>
    /\ UNCHANGED remotePolicy
    /\ UNCHANGED <<authVars, provVars, envVars>>

\* principals that other writers of the policy grant roles to
OtherPrincipals == {<<"user:", "eve">>}

\* another actor replaces the remote policy with one that binds a principal
\* to a role; it may do so at any moment, also between this run's
\* GetIamPolicy (line 120) and SetIamPolicy (line 157)
ExternalWrite ==
    /\ \E x \in OtherPrincipals, r \in Roles :
         LET b == GrantRole(remotePolicy.Bindings, x, r)
         IN /\ b # remotePolicy.Bindings
            /\ remotePolicy' = [Bindings |-> b,
                                Etag |-> 1 - remotePolicy.Etag]
    /\ UNCHANGED <<gpc, gargs, policy, fetched, gret, gcalls, prev,
                   overwritten>>
    /\ UNCHANGED <<authVars, provVars, envVars>>

GrantLocalsIdle ==
    /\ gpc = "idle" /\ gargs = None /\ policy = None /\ fetched = None
    /\ gret = NoGRet /\ gcalls = <<>> /\ prev = None /\ overwritten = None

GrantIdle ==
    /\ GrantLocalsIdle
    /\ remotePolicy = [Bindings |-> <<>>, Etag |-> 0]

\* ======================================================= environ.Unmarshal
\* A string of the environ package is a sequence of one-character strings; a
\* struct tag is a sequence of tokens, "," being the token strings.Split cuts at.

\* reflect.Kind of the field types met: the seven the switch handles and one
\* it does not
Kinds == {"bool", "string", "int", "int32", "int64", "float32", "float64",
          "uint"}

Digits == {"0", "1", "2", "3", "4", "5", "6", "7", "8", "9"}

DigitVal(c) ==
    CASE c = "0" -> 0 [] c = "1" -> 1 [] c = "2" -> 2 [] c = "3" -> 3
      [] c = "4" -> 4 [] c = "5" -> 5 [] c = "6" -> 6 [] c = "7" -> 7
      [] c = "8" -> 8 [] c = "9" -> 9

RECURSIVE StripZeros(_)
StripZeros(d) ==
    IF d # <<>> /\ Head(d) = "0" THEN StripZeros(Tail(d)) ELSE d

RECURSIVE StripTrailingZeros(_)
StripTrailingZeros(d) ==
    IF d # <<>> /\ d[Len(d)] = "0"
    THEN StripTrailingZeros(SubSeq(d, 1, Len(d) - 1))
    ELSE d

\* 0.a < 0.b for digit strings a and b without trailing zeros, which for
\* strings of one length is a < b
RECURSIVE LexLess(_, _)
LexLess(a, b) ==
    IF a = <<>> \/ b = <<>> THEN a = <<>> /\ b # <<>>
    ELSE IF Head(a) = Head(b) THEN LexLess(Tail(a), Tail(b))
    ELSE DigitVal(Head(a)) < DigitVal(Head(b))

\* a < b for magnitudes written without leading zeros
MagLess(a, b) ==
    \/ Len(a) < Len(b)
    \/ Len(a) = Len(b) /\ LexLess(a, b)

RECURSIVE DigitsToNat(_)
DigitsToNat(d) ==
    IF d = <<>> THEN 0
    ELSE 10 * DigitsToNat(SubSeq(d, 1, Len(d) - 1)) + DigitVal(d[Len(d)])

AllDigits(d) == \A k \in DOMAIN d : d[k] \in Digits

\* position of the first c in s, 0 when there is none
IndexOf(s, c) ==
    IF c \in Range(s)
    THEN CHOOSE k \in DOMAIN s : s[k] = c /\ \A j \in 1..(k - 1) : s[j] # c
    ELSE 0

\* the errors of strconv
ErrSyntax == "strconv.ErrSyntax"
ErrRange == "strconv.ErrRange"
NoConvErr == Nil

\* strconv.ParseBool: the twelve spellings it accepts
ParseBool(str) ==
    IF str \in {<<"1">>, <<"t">>, <<"T">>, <<"T", "R", "U", "E">>,
                <<"t", "r", "u", "e">>, <<"T", "r", "u", "e">>}
    THEN [val |-> TRUE, err |-> NoConvErr]
    ELSE IF str \in {<<"0">>, <<"f">>, <<"F">>, <<"F", "A", "L", "S", "E">>,
                     <<"f", "a", "l", "s", "e">>, <<"F", "a", "l", "s", "e">>}
    THEN [val |-> FALSE, err |-> NoConvErr]
    ELSE [val |-> FALSE, err |-> ErrSyntax]

\* 2^(bitSize-1) in decimal: the magnitude no positive intN reaches
Cutoff(bitSize) ==
    IF bitSize = 32
    THEN <<"2", "1", "4", "7", "4", "8", "3", "6", "4", "8">>
    ELSE <<"9", "2", "2", "3", "3", "7", "2", "0", "3", "6", "8", "5", "4",
           "7", "7", "5", "8", "0", "8">>

\* an integer value: sign and magnitude (decimal digits, none for zero)
IntValue(neg, mag) == [neg |-> neg /\ mag # <<>>, mag |-> mag]

\* strconv.ParseInt(s, 10, bitSize); the value it returns beside an error is
\* not read by Unmarshal and is left zero here
ParseInt(str, bitSize) ==
    LET signed == str # <<>> /\ Head(str) \in {"+", "-"}
        neg == signed /\ Head(str) = "-"
        body == IF signed THEN Tail(str) ELSE str
        mag == StripZeros(body)
    IN  IF body = <<>> \/ ~AllDigits(body)
        THEN [val |-> IntValue(FALSE, <<>>), err |-> ErrSyntax]
        ELSE IF (~neg /\ ~MagLess(mag, Cutoff(bitSize)))
                \/ (neg /\ MagLess(Cutoff(bitSize), mag))
        THEN [val |-> IntValue(FALSE, <<>>), err |-> ErrRange]
        ELSE [val |-> IntValue(neg, mag), err |-> NoConvErr]

\* the first digits of the least decimal that rounds beyond the largest
\* float: 2^128 - 2^103 for float32, 2^1024 - 2^970 for float64
Overflow(bitSize) ==
    IF bitSize = 32
    THEN [exp |-> 38,
          digits |-> <<"3", "4", "0", "2", "8", "2", "3", "5", "6", "7", "7",
                       "9", "7", "3", "3", "6", "6", "1", "6", "3", "7">>]
    ELSE [exp |-> 308,
          digits |-> <<"1", "7", "9", "7", "6", "9", "3", "1", "3", "4", "8",
                       "6", "2", "3", "1", "5", "8", "0", "7", "9", "3">>]

\* a floating-point value: the float of bitSize bits nearest to
\* (-1)^neg * digits * 10^exp, digits without leading or trailing zeros
FloatValue(neg, digits, exp, bitSize) ==
    [neg |-> neg, digits |-> digits,
     exp |-> IF digits = <<>> THEN 0 ELSE exp, bits |-> bitSize]

\* strconv.ParseFloat(s, bitSize) on decimal spellings:
\* [sign] digits [. digits] [e [sign] digits], at most twenty significant
\* digits; the value it returns beside an error is not read by Unmarshal
ParseFloat(str, bitSize) ==
    LET signed == str # <<>> /\ Head(str) \in {"+", "-"}
        neg == signed /\ Head(str) = "-"
        body == IF signed THEN Tail(str) ELSE str
        ePos == IF IndexOf(body, "e") # 0 THEN IndexOf(body, "e")
                ELSE IndexOf(body, "E")
        mantissa == IF ePos = 0 THEN body ELSE SubSeq(body, 1, ePos - 1)
        exponent == IF ePos = 0 THEN <<>>
                    ELSE SubSeq(body, ePos + 1, Len(body))
        dot == IndexOf(mantissa, ".")
        intPart == IF dot = 0 THEN mantissa ELSE SubSeq(mantissa, 1, dot - 1)
        fracPart == IF dot = 0 THEN <<>>
                    ELSE SubSeq(mantissa, dot + 1, Len(mantissa))
        expSigned == exponent # <<>> /\ Head(exponent) \in {"+", "-"}
        expDigits == IF expSigned THEN Tail(exponent) ELSE exponent
        wellFormed ==
            /\ AllDigits(intPart) /\ AllDigits(fracPart)
            /\ Len(intPart) + Len(fracPart) >= 1
            /\ ePos = 0 \/ (expDigits # <<>> /\ AllDigits(expDigits))
        e == IF expSigned /\ Head(exponent) = "-"
             THEN 0 - DigitsToNat(expDigits) ELSE DigitsToNat(expDigits)
        lead == StripZeros(intPart \o fracPart)
        sig == StripTrailingZeros(lead)
        e10 == e - Len(fracPart) + (Len(lead) - Len(sig))
        sciExp == Len(lead) - 1 + e - Len(fracPart)
        tooBig ==
            /\ sig # <<>>
            /\ \/ sciExp > Overflow(bitSize).exp
               \/ /\ sciExp = Overflow(bitSize).exp
                  /\ ~LexLess(sig, Overflow(bitSize).digits)
    IN  IF ~wellFormed
        THEN [val |-> FloatValue(FALSE, <<>>, 0, bitSize), err |-> ErrSyntax]
        ELSE IF tooBig
        THEN [val |-> FloatValue(FALSE, <<>>, 0, bitSize), err |-> ErrRange]
        ELSE [val |-> FloatValue(neg, sig, e10, bitSize), err |-> NoConvErr]

\* reflect.Type.Bits of the sized kinds (int is 64 bits wide on the 64-bit
\* platforms the services are built for)
Bits(kind) ==
    CASE kind = "int32" -> 32
      [] kind = "float32" -> 32
      [] OTHER -> 64

\* the value of a field the caller did not fill in (environ.Unmarshal is
\* handed a pointer to a fresh struct)
ZeroValue(kind) ==
    CASE kind = "bool" -> FALSE
      [] kind = "string" -> <<>>
      [] kind \in {"float32", "float64"} -> FloatValue(FALSE, <<>>, 0, Bits(kind))
      [] OTHER -> IntValue(FALSE, <<>>)

\* the environment variable names the tags mention
EnvNames == {<<"A">>, <<"B">>}

\* the values variables are set to: a boolean, -2^31 - 1 (an integer that is
\* no int32) and 10^39 in exponent form (no integer, no float32)
EnvValues == {<<"t", "r", "u", "e">>,
              <<"-", "2", "1", "4", "7", "4", "8", "3", "6", "4", "9">>,
              <<"1", "e", "3", "9">>}

\* the process environment: each name unset (None) or set to a value
Environments == [EnvNames -> {None} \cup {Some(x) : x \in EnvValues}]

\* os.LookupEnv
LookupEnv(env, key) ==
    IF key \in DOMAIN env /\ env[key] # None
    THEN [val |-> env[key][1], ok |-> TRUE]
    ELSE [val |-> <<>>, ok |-> FALSE]

\* the `env` struct tags met: none, a required variable, an optional one
\* (the keyword is matched whatever its case) and one naming two variables
EnvTags == {None,
            Some(<<"A">>),
            Some(<<"B", ",", "Optional">>),
            Some(<<"A", ",", "B">>)}

\* a struct field as reflect.Type describes it: its kind, its env tag and
\* whether it is exported (reflect.Value.CanSet)
StructFields ==
    [kind : Kinds, tag : EnvTags, exported : {TRUE}]
      \cup [kind : {"string"}, tag : EnvTags, exported : {FALSE}]

\* strings.EqualFold(part, "optional"), the keyword being one token
IsOptionalWord(part) ==
    Len(part) = 1 /\ part[1] \in {"optional", "Optional", "OPTIONAL"}

\* strings.Split(value, ",")
RECURSIVE Split(_)
Split(value) ==
    IF IndexOf(value, ",") = 0 THEN <<value>>
    ELSE <<SubSeq(value, 1, IndexOf(value, ",") - 1)>>
           \o Split(SubSeq(value, IndexOf(value, ",") + 1, Len(value)))

\* the body of the loop of parseTagValue, applied to the parts in order
RECURSIVE ParseParts(_, _)
ParseParts(parts, acc) ==
    IF parts = <<>> THEN acc
    ELSE LET part == Head(parts)
         IN ParseParts(Tail(parts),
              IF IsOptionalWord(part)
              THEN [acc EXCEPT !.optional = TRUE]
              ELSE IF acc.envVar = <<>>
              THEN [acc EXCEPT !.envVar = part]
              ELSE [acc EXCEPT !.err = "ErrMalformedTag"])

\* parseTagValue
parseTagValue(value) ==
    ParseParts(Split(value),
               [envVar |-> <<>>, optional |-> FALSE, err |-> Nil])

\* fmt.Errorf("%s; %w", errMsg, err): what the message is about, the type
\* name it mentions and the error it wraps
FieldError(about, typeName, wrapped) ==
    [about |-> about, type |-> typeName, wraps |-> wrapped]

\* the switch on the field's kind (lines 73-116): the value the field is set
\* to and the error appended, if any
Convert(kind, old, val) ==
    LET conv == IF kind = "bool" THEN ParseBool(val)
                ELSE IF kind \in {"float32", "float64"}
                THEN ParseFloat(val, Bits(kind))
                ELSE ParseInt(val, Bits(kind))
    IN  IF kind = "string" THEN [val |-> val, err |-> None]
        ELSE IF kind \notin {"bool", "float32", "float64", "int", "int32", "int64"}
        THEN [val |-> old, err |-> Some(FieldError(<<>>, kind, "ErrNotSupportedTypeFound"))]
        ELSE IF conv.err # NoConvErr
        THEN [val |-> old, err |-> Some(FieldError(val, kind, conv.err))]
        ELSE [val |-> conv.val, err |-> None]

\* one iteration of the loop of Unmarshal (lines 36-116) on a field of type
\* ft holding old: the value it holds afterwards and the error appended
UnmarshalField(ft, old, env) ==
    LET tag == parseTagValue(ft.tag[1])
        found == LookupEnv(env, tag.envVar)
    IN  IF ~ft.exported THEN [val |-> old, err |-> None]
        ELSE IF ft.tag = None THEN [val |-> old, err |-> None]
        ELSE IF tag.err # Nil
        THEN [val |-> old,
              err |-> Some(FieldError(ft.tag[1], "", "ErrMalformedTag"))]
        ELSE IF ~found.ok /\ ~tag.optional
        THEN [val |-> old,
              err |-> Some(FieldError(tag.envVar, "", "ErrMissingEnvVariable"))]
        ELSE IF ~found.ok THEN [val |-> old, err |-> None]
        ELSE Convert(ft.kind, old, found.val)

\* the structs handed to Unmarshal, as reflect.TypeOf(config).Elem()
StructTypes == SeqsUpTo(StructFields, MaxFields)

NoURet == [returned |-> FALSE, err |-> None]

\* errors.Join(errs...)
Join(list) == [joined |-> list]

\* one iteration of the loop: field number fieldIdx is examined, set or
\* skipped, and its error appended
UnmField_StopsAtError ==
    LET r == UnmarshalField(cfgType[fieldIdx], cfgVal[fieldIdx], osEnv)
    IN  /\ upc = "loop"
        /\ fieldIdx <= Len(cfgType)
        /\ cfgVal' = [cfgVal EXCEPT ![fieldIdx] = r.val]
        /\ errs' = IF r.err = None THEN errs ELSE Append(errs, r.err[1])
        /\ fieldIdx' = IF r.err = None THEN fieldIdx + 1 ELSE Len(cfgType) + 1
        /\ UNCHANGED <<upc, cfgType, osEnv, uret>>
        /\ UNCHANGED <<authVars, provVars, grantVars>>

UnmField ==
    LET r == UnmarshalField(cfgType[fieldIdx], cfgVal[fieldIdx], osEnv)
    IN  /\ upc = "loop"
        /\ fieldIdx <= Len(cfgType)
        /\ cfgVal' = [cfgVal EXCEPT ![fieldIdx] = r.val]
        /\ errs' = IF r.err = None THEN errs ELSE Append(errs, r.err[1])
        /\ fieldIdx' = fieldIdx + 1
        /\ UNCHANGED <<upc, cfgType, osEnv, uret>>
        /\ UNCHANGED <<authVars, provVars, grantVars>>

\* lines 119-123: the joined errors, or nil
UnmReturn ==
    /\ upc = "loop"
    /\ fieldIdx > Len(cfgType)
    /\ upc' = "done"
    /\ uret' = [returned |-> TRUE,
                err |-> IF Len(errs) > 0 THEN Some(Join(errs)) ELSE None]
    /\ UNCHANGED <<cfgType, cfgVal, osEnv, fieldIdx, errs>>
    /\ UNCHANGED <<authVars, provVars, grantVars>>

EnvIdle ==
    /\ upc = "idle" /\ cfgType = <<>> /\ cfgVal = <<>>
    /\ osEnv = [n \in EnvNames |-> None]
    /\ fieldIdx = 1 /\ errs = <<>> /\ uret = NoURet

AuthInit ==
    /\ EnvIdle
    /\ authr = None
    /\ consErr = "none"
    /\ aconf = Nil
    /\ mapHeap \in [{MapRef} -> PublicMaps]
    /\ AuthIdle
    /\ ProvIdle
    /\ GrantIdle

AuthNext ==
    \/ Construct
    \/ AuthBegin
    \/ AuthExtract
    \/ AuthNewValidator
    \/ AuthValidate
    \/ AuthCheckIssuer
    \/ AuthReturn

SpecAuth == AuthInit /\ [][AuthNext]_vars

\* ------------------------------------------------------- claims on authn
\* what the finished call was given
public == actx.method # NoMethod /\ actx.method \in DOMAIN mapHeap[MapRef]
bearerGiven == actx.header.kind = "pair" /\ actx.header.scheme = "Bearer"
validatorBuilt == avalidator = "validator"
validatorFailed == avalidator = Nil /\ acalls = <<"AuthFromMD", "NewValidator">>
tokenAccepted ==
    /\ actx.header.token.good
    /\ actx.header.token.aud = aconf.ExpectedAudience
issuerExpected ==
    actx.header.token.iss = IssuerPrefix \o aconf.GcpProjectId
succeeded == aret.returned /\ aret.err = NoErr
rejected == aret.returned /\ aret.err # NoErr

\* C1: Authenticate returns a nil error exactly when (a) the resolved method
\* is a key of publicMethods, or (b) a bearer token was extracted, the
\* validator accepted it for the expected audience and its issuer is the
\* expected issuer; every other call, also one whose method cannot be
\* resolved, returns an error.
C1_SuccessOnlyPublicOrValidToken ==
    apc = "done" =>
        /\ aret.returned
        /\ succeeded <=>
             \/ public
             \/ /\ bearerGiven
                /\ validatorBuilt
                /\ tokenAccepted
                /\ issuerExpected
        /\ ~succeeded => rejected

\* a call whose method is not resolved is authenticated by its token
C1_Witness ==
    /\ apc = "done"
    /\ actx.method = NoMethod
    /\ succeeded
    /\ Len(acalls) = 3

\* a call whose method is not resolved and that carries no token is let in
\* by nothing
C1_WitnessRejected ==
    /\ apc = "done"
    /\ actx.method = NoMethod
    /\ actx.header.kind = "absent"
    /\ rejected

\* C6: for a call to a public method Authenticate returns the input context
\* unchanged with a nil error, and has called neither AuthFromMD nor
\* NewValidator nor Validate, whatever token the call carries.
C6_PublicBypass ==
    (apc # "idle" /\ public) =>
        /\ apc = "done"
        /\ aret = Returned(Some(actx), NoErr)
        /\ acalls = <<>>

\* a public method called with a token the validator would reject
C6_Witness ==
    /\ apc = "done"
    /\ public
    /\ actx.header.kind = "pair"
    /\ ~actx.header.token.good
    /\ succeeded

\* C7: a rejected call to a non-public method is classified by the first
\* failing step: no bearer token -> Unauthenticated with no validator built
\* or called; validator construction fails -> Internal; token refused for
\* the expected audience -> Unauthenticated; issuer differs ->
\* Unauthenticated.  Internal is returned in no other case and a rejection
\* returns no context.
C7_RejectionClassification ==
    (apc = "done" /\ ~public) =>
        /\ ~bearerGiven =>
             /\ aret.err = StatusError("Unauthenticated",
                                       "Authorization token not provided")
             /\ acalls = <<"AuthFromMD">>
        /\ (bearerGiven /\ validatorFailed) =>
             aret.err = StatusError("Internal", "Authentication service error")
        /\ (bearerGiven /\ validatorBuilt /\ ~tokenAccepted) =>
             aret.err = StatusError("Unauthenticated",
                                    "Invalid authentication token")
        /\ (bearerGiven /\ validatorBuilt /\ tokenAccepted /\ ~issuerExpected) =>
             aret.err = StatusError("Unauthenticated", "Invalid token issuer")
        /\ aret.err.code = "Internal" => (bearerGiven /\ validatorFailed)
        /\ rejected => aret.ctx = None

\* a well-signed token minted for another audience is refused
C7_Witness ==
    /\ apc = "done"
    /\ ~public
    /\ bearerGiven
    /\ actx.header.token.good
    /\ actx.header.token.aud # aconf.ExpectedAudience
    /\ actx.header.token.iss = IssuerPrefix \o aconf.GcpProjectId
    /\ aret.err.code = "Unauthenticated"
    /\ acalls = <<"AuthFromMD", "NewValidator", "Validate">>

\* C8: for a non-public method, a token accepted for the expected audience
\* whose issuer is the provider prefix followed by the project id makes
\* Authenticate succeed, and the returned context is the input context with
\* "jwt_claims" bound to the validator's claim set and every other value as
\* it was.
C8_ClaimsAttached ==
    (apc = "done" /\ ~public /\ bearerGiven /\ validatorBuilt
        /\ tokenAccepted /\ issuerExpected) =>
        /\ succeeded
        /\ aret.ctx # None
        /\ aret.ctx[1].method = actx.method
        /\ aret.ctx[1].header = actx.header
        /\ aret.ctx[1].values[ClaimsContextKey] = actx.header.token.claims
        /\ \A k \in CtxKeys \ {ClaimsContextKey} :
             aret.ctx[1].values[k] = actx.values[k]

\* an accepted token on a context that already carries values
C8_Witness ==
    /\ apc = "done"
    /\ ~public
    /\ succeeded
    /\ actx.values["trace_id"] = "v"
    /\ actx.values[ClaimsContextKey] = "v"
    /\ aret.ctx[1].values[ClaimsContextKey] = "claims-bob"

\* s is empty or holds white space only
Blank(s) == \A i \in DOMAIN s : s[i] \in {" ", "\t"}

\* C9: the constructor fails and returns no authenticator when the project
\* id or the expected audience is empty or whitespace only; otherwise it
\* succeeds with expectedIssuer = prefix followed by the project id as given
\* and expectedAudience = the configured audience.
C9_ConstructionValidation ==
    consErr # "none" =>
        IF Blank(aconf.GcpProjectId) \/ Blank(aconf.ExpectedAudience)
        THEN /\ consErr \in {"ErrProjectIdMissing", "ErrExpectedAudMissing"}
             /\ authr = None
        ELSE /\ consErr = Nil
             /\ authr # None
             /\ authr[1].expectedIssuer = IssuerPrefix \o aconf.GcpProjectId
             /\ authr[1].expectedAudience = aconf.ExpectedAudience

\* a whitespace-only audience with a good project id is refused
C9_Witness ==
    /\ consErr = "ErrExpectedAudMissing"
    /\ aconf.ExpectedAudience = <<" ">>
    /\ aconf.GcpProjectId = <<"p">>
    /\ authr = None

\* a project id of white space only is refused
C9_WitnessBlankProject ==
    /\ consErr = "ErrProjectIdMissing"
    /\ aconf.GcpProjectId = <<"\t", " ">>
    /\ authr = None

\* a project id with white space around it is kept as given
C9_WitnessUntrimmed ==
    /\ consErr = Nil
    /\ aconf.GcpProjectId = <<" ", "p">>
    /\ authr # None

\* C20: a method that is a key of publicMethods bypasses authentication
\* whatever boolean it maps to - a method registered with false is let
\* through with no token check - and a method that is no key never is.
C20_KeyPresenceDecides ==
    /\ (apc # "idle" /\ actx.method # NoMethod
          /\ actx.method \in DOMAIN mapHeap[MapRef]
          /\ ~mapHeap[MapRef][actx.method]) =>
            /\ apc = "done"
            /\ succeeded
            /\ aret.ctx = Some(actx)
            /\ acalls = <<>>
    /\ (apc = "done" /\ actx.method \notin DOMAIN mapHeap[MapRef]) =>
            acalls # <<>>

\* a method registered with false, called without any token, is let in
C20_Witness ==
    /\ apc = "done"
    /\ actx.method = "/svc/B"
    /\ mapHeap[MapRef] = [k \in {"/svc/B"} |-> FALSE]
    /\ actx.header.kind = "absent"
    /\ succeeded

\* ------------------------------ authn beside the caller that built it
AuthSharedNext ==
    \/ AuthNext
    \/ CallerMutatesMap

SpecAuthShared == AuthInit /\ [][AuthSharedNext]_vars

\* the public methods of a constructed authenticator
publicMethodsOf(a, heap) == DOMAIN heap[a[1].publicMethods]

\* C18: once the constructor has returned, the authenticator's expected
\* audience, expected issuer and set of public methods never change,
\* whatever Authenticate calls run and whatever the caller does with the
\* map it passed in.
C18_ConfigImmutable ==
    [][authr # None =>
          /\ authr' = authr
          /\ publicMethodsOf(authr', mapHeap') = publicMethodsOf(authr, mapHeap)
      ]_vars

\* what holds of the code: Authenticate calls change nothing of it
C18_UnchangedByAuthenticate ==
    [][(authr # None /\ mapHeap' = mapHeap) => authr' = authr]_vars

\* ----------------------------------------- NewM2MServiceAccount: the system
ProvInit ==
    /\ EnvIdle
    /\ authr = None
    /\ consErr = "none"
    /\ aconf = Nil
    /\ mapHeap = [r \in {MapRef} |-> <<>>]
    /\ AuthIdle
    /\ ProvIdle
    /\ GrantIdle

ProvNext ==
    \/ ProvBegin
    \/ ProvNewClient
    \/ ProvCreateSA
    \/ ProvCreateKey
    \/ ProvCleanup
    \/ ProvReturn

SpecProvision == ProvInit /\ [][ProvNext]_vars

\* ---------------------------------------- claims on NewM2MServiceAccount
\* the account name the remote service derives from the arguments of the run
expectedName ==
    <<"projects/", pargs[1].projectID, "/serviceAccounts/", pargs[1].clientID>>
deletesIssued ==
    {i \in DOMAIN pcalls : pcalls[i].op = "DeleteServiceAccount"}
identityCreated == createdSA # None
keyFailed == pkeyErr # Nil

\* C2: when identity creation succeeded and key creation failed, exactly
\* one DeleteServiceAccount was issued, for the account this run created,
\* and the returned error is the key-creation failure with no credential,
\* whether the delete succeeded or failed.
C2_CompensationCorrect ==
    (ppc = "done" /\ identityCreated /\ keyFailed) =>
        /\ Cardinality(deletesIssued) = 1
        /\ \A i \in deletesIssued :
             /\ pcalls[i].target = expectedName
             /\ pcalls[i].target = createdSA[1].Name
        /\ pret = PReturned(None, Wrap("CreateServiceAccountKey", pkeyErr))

\* key creation failed and the compensating delete failed as well
C2_Witness ==
    /\ ppc = "done"
    /\ identityCreated
    /\ pkeyErr = "DeadlineExceeded"
    /\ Len(plog) = 1
    /\ createdSA[1] \in identities
    /\ pret.err.cause = "DeadlineExceeded"

\* key creation failed and the compensating delete succeeded
C2_WitnessDeleted ==
    /\ ppc = "done"
    /\ identityCreated
    /\ keyFailed
    /\ plog = <<>>
    /\ createdSA[1] \notin identities

\* C10: NewM2MServiceAccount returns a credential exactly when identity
\* creation and key creation both succeeded, and then with a nil error;
\* every failure returns an error and no credential.  The credential carries
\* the created account's email and display name, the created key's name and
\* the client id passed in.
C10_CredentialIffBothSucceeded ==
    ppc = "done" =>
        /\ pret.returned
        /\ pret.cred # None <=> (identityCreated /\ generatedKey # None)
        /\ pret.cred # None <=> pret.err = NoPErr
        /\ pret.cred # None =>
             /\ pret.cred[1].Email = createdSA[1].Email
             /\ pret.cred[1].DisplayName = createdSA[1].DisplayName
             /\ pret.cred[1].KeyID = generatedKey[1].Name
             /\ pret.cred[1].ServiceAccountID = pargs[1].clientID
             /\ createdSA[1] \in identities
             /\ generatedKey[1] \in keys

\* a second account provisioned after a first one
C10_Witness ==
    /\ ppc = "done"
    /\ pret.cred # None
    /\ pret.cred[1].ServiceAccountID = "client-2"
    /\ Cardinality(identities) = 2
    /\ Cardinality(keys) = 2

\* the operations of the remote calls issued so far by the run
pops == [i \in DOMAIN pcalls |-> pcalls[i].op]
ProvisionOrder ==
    <<"CreateServiceAccount", "CreateServiceAccountKey",
      "DeleteServiceAccount">>

\* C14: a run issues CreateServiceAccount, CreateServiceAccountKey and
\* DeleteServiceAccount in that order, each at most once: the key call only
\* after the account was created, the delete only after the key call
\* failed.  A failed account creation ends the run after one call with that
\* error, a successful run made exactly the first two calls, the
\* compensation path exactly the three.
C14_CallOrder ==
    /\ IsPrefix(pops, ProvisionOrder)
    /\ Len(pcalls) >= 2 => identityCreated
    /\ Len(pcalls) = 3 => keyFailed
    /\ ppc = "done" =>
         /\ (Len(pcalls) >= 1 /\ ~identityCreated) =>
              /\ Len(pcalls) = 1
              /\ pret.err.op = "CreateServiceAccount"
              /\ pret.cred = None
         /\ pret.err.op = "CreateServiceAccount" => Len(pcalls) = 1
         /\ pret.cred # None => Len(pcalls) = 2
         /\ keyFailed => Len(pcalls) = 3

\* the compensation path has run to its end
C14_Witness ==
    /\ ppc = "done"
    /\ pops = ProvisionOrder
    /\ pret.err.op = "CreateServiceAccountKey"

\* an account creation refused by the remote service ends the run
C14_WitnessCreateFailed ==
    /\ ppc = "done"
    /\ pops = <<"CreateServiceAccount">>
    /\ pret.err = Wrap("CreateServiceAccount", "AlreadyExists")

\* C16: when the run returns the key-creation error, either the account it
\* created is gone from the remote service, or the delete failed and a
\* cleanup-failure record naming that account was logged before the return.
C16_CleanupFailureLogged ==
    (ppc = "done" /\ pret.err.op = "CreateServiceAccountKey") =>
        /\ identityCreated
        /\ \/ /\ createdSA[1] \notin identities
              /\ plog = <<>>
           \/ /\ createdSA[1] \in identities
              /\ Len(plog) = 1
              /\ plog[1].msg = "Failed to clean up service account"
              /\ plog[1].account = createdSA[1].Email
              /\ plog[1].error \in DeleteErrs

\* the account outlives the failed run, and the log says so
C16_Witness ==
    /\ ppc = "done"
    /\ pret.err.op = "CreateServiceAccountKey"
    /\ \E sa \in identities :
         /\ sa.Name = expectedName
         /\ Len(plog) = 1
         /\ plog[1].account = sa.Email
         /\ plog[1].error = "Canceled"

\* encoding/base64, standard alphabet with padding, over byte values; the
\* result is the sequence of the ASCII codes of the encoded text
B64Char(i) ==
    IF i < 26 THEN 65 + i
    ELSE IF i < 52 THEN 97 + (i - 26)
    ELSE IF i < 62 THEN 48 + (i - 52)
    ELSE IF i = 62 THEN 43 ELSE 47

RECURSIVE Base64Encode(_)
Base64Encode(b) ==
    IF Len(b) = 0 THEN <<>>
    ELSE IF Len(b) = 1
    THEN <<B64Char(b[1] \div 4), B64Char((b[1] % 4) * 16), 61, 61>>
    ELSE IF Len(b) = 2
    THEN <<B64Char(b[1] \div 4),
           B64Char((b[1] % 4) * 16 + (b[2] \div 16)),
           B64Char((b[2] % 16) * 4), 61>>
    ELSE <<B64Char(b[1] \div 4),
           B64Char((b[1] % 4) * 16 + (b[2] \div 16)),
           B64Char((b[2] % 16) * 4 + (b[3] \div 64)),
           B64Char(b[3] % 64)>> \o Base64Encode(SubSeq(b, 4, Len(b)))

\* C11: the private_key of a returned credential is the Base64 encoding of
\* the PrivateKeyData the key-creation call returned.
C11_PrivateKeyIsBase64 ==
    (ppc = "done" /\ pret.cred # None) =>
        pret.cred[1].PrivateKey
            = Base64Encode(generatedKey[1].PrivateKeyData)

\* what the code returns instead: the bytes of PrivateKeyData as they came
C11_PrivateKeyIsRaw ==
    (ppc = "done" /\ pret.cred # None) =>
        /\ pret.cred[1].PrivateKey = generatedKey[1].PrivateKeyData
        /\ pret.cred[1].PrivateKey
             # Base64Encode(generatedKey[1].PrivateKeyData)

\* ----------------------------------- grantRolesToServiceAccount: the system
GrantInit ==
    /\ EnvIdle
    /\ authr = None
    /\ consErr = "none"
    /\ aconf = Nil
    /\ mapHeap = [r \in {MapRef} |-> <<>>]
    /\ AuthIdle
    /\ ProvIdle
    /\ GrantLocalsIdle
    /\ remotePolicy \in Policies

GrantNext ==
    \/ GrantBegin
    \/ GrantAgain
    \/ GrantNewClient
    \/ GrantGetPolicy
    \/ GrantMerge
    \/ GrantSetPolicy
    \/ GrantReturn

SpecGrant == GrantInit /\ [][GrantNext]_vars

\* ---------------------------------- claims on grantRolesToServiceAccount
\* the run has written its policy: P was fetched, W is what the remote
\* service now holds, m and R are the member and the role list
granted == gpc = "done" /\ gret.returned /\ gret.err = NoPErr
P == fetched[1].Bindings
W == remotePolicy.Bindings
m == Member(gargs[1].serviceAccountEmail)
R == gargs[1].roles

\* the members bound to a role, over all bindings of the role
MembersOf(bindings, role) ==
    UNION {Range(bindings[i].Members) :
             i \in {j \in DOMAIN bindings : bindings[j].Role = role}}

HasBinding(bindings, role) ==
    \E i \in DOMAIN bindings : bindings[i].Role = role

\* C3: a Grant repeated with the same member and role list, fetching the
\* policy its first run wrote, writes that same policy again: same bindings
\* in the same order with the same members in the same order.
C3_GrantIdempotent ==
    (granted /\ prev # None) =>
        /\ gargs[1] = prev[1].args
        /\ P = prev[1].written
        /\ W = prev[1].written

\* the repeated run of a grant that appended to the policy
C3_Witness ==
    /\ granted
    /\ prev # None
    /\ Len(R) = 2
    /\ R[1] # R[2]
    /\ Len(W) = 2
    /\ \E i \in DOMAIN W : Len(W[i].Members) = 2

\* C4: after a successful Grant the members bound to a role of the role
\* list are those of the fetched policy plus the member; a role that had no
\* binding has exactly one, holding the member alone; the members bound to
\* the other roles are those of the fetched policy.
C4_MemberSets ==
    granted =>
        /\ \A r \in Roles :
             MembersOf(W, r) = IF r \in Range(R)
                               THEN MembersOf(P, r) \cup {m}
                               ELSE MembersOf(P, r)
        /\ \A r \in Range(R) :
             ~HasBinding(P, r) =>
                \E i \in DOMAIN W :
                   /\ W[i] = [Role |-> r, Members |-> <<m>>]
                   /\ \A j \in DOMAIN W : W[j].Role = r => j = i
        /\ \A r \in Roles \ Range(R) :
             SelectSeq(W, LAMBDA b : b.Role = r)
               = SelectSeq(P, LAMBDA b : b.Role = r)

\* one role of the list was bound to another principal, the other role was
\* not bound at all
C4_Witness ==
    /\ granted
    /\ Len(R) = 2
    /\ HasBinding(P, R[1])
    /\ MembersOf(P, R[1]) = {<<"user:", "bob">>}
    /\ ~HasBinding(P, R[2])
    /\ MembersOf(W, R[1]) = {<<"user:", "bob">>, m}
    /\ MembersOf(W, R[2]) = {m}

\* s without the repetitions of an element after its first occurrence
RECURSIVE FirstOccurrences(_)
FirstOccurrences(s) ==
    IF s = <<>> THEN <<>>
    ELSE LET init == FirstOccurrences(SubSeq(s, 1, Len(s) - 1))
         IN IF s[Len(s)] \in Range(init)
            THEN init
            ELSE Append(init, s[Len(s)])

\* C5: the fetched bindings are a prefix of the written ones up to members
\* appended: each fetched binding keeps its place and role, its member
\* sequence is a prefix of the written one and grows by at most the member;
\* the bindings added follow in the order their roles appear in the role
\* list.
C5_OrderPreserved ==
    granted =>
        /\ Len(P) <= Len(W)
        /\ \A i \in DOMAIN P :
             /\ W[i].Role = P[i].Role
             /\ IsPrefix(P[i].Members, W[i].Members)
             /\ \/ W[i].Members = P[i].Members
                \/ W[i].Members = Append(P[i].Members, m)
        /\ [i \in 1..(Len(W) - Len(P)) |-> W[Len(P) + i].Role]
             = FirstOccurrences(SelectSeq(R, LAMBDA r : ~HasBinding(P, r)))

\* two bindings are appended to an empty policy, in the order of the role list
C5_WitnessAppended ==
    /\ granted
    /\ P = <<>>
    /\ R = <<"roles/viewer", "roles/editor">>
    /\ Len(W) = 2
    /\ W[1].Role = "roles/viewer"
    /\ W[2].Role = "roles/editor"

\* a fetched binding gets the member behind its members and a new binding
\* follows it
C5_Witness ==
    /\ granted
    /\ Len(P) = 1
    /\ P[1].Members = <<<<"user:", "bob">>>>
    /\ Len(W) = 2
    /\ W[1].Members = <<<<"user:", "bob">>, m>>
    /\ W[2].Members = <<m>>
    /\ R[1] = W[2].Role
    /\ R[2] = W[1].Role

\* the operations of the remote calls issued so far by the run
gops == [i \in DOMAIN gcalls |-> gcalls[i].op]
getsIssued == {i \in DOMAIN gcalls : gcalls[i].op = "GetIamPolicy"}
setsIssued == {i \in DOMAIN gcalls : gcalls[i].op = "SetIamPolicy"}

\* what a finished run did after its GetIamPolicy: a failed fetch is
\* returned and nothing is written; a fetched policy is sent once, whole and
\* merged, and the error returned is that of the SetIamPolicy
AfterFetch ==
    /\ fetched = None =>
         /\ gops = <<"GetIamPolicy">>
         /\ gret.err.op = "GetIamPolicy"
         /\ overwritten = None
    /\ fetched # None =>
         /\ gops = <<"GetIamPolicy", "SetIamPolicy">>
         /\ Len(policy[1].Bindings) >= Len(P)
         /\ \A r \in Range(R) : m \in MembersOf(policy[1].Bindings, r)
         /\ gret.err = NoPErr <=> overwritten # None
         /\ gret.err # NoPErr => gret.err.op = "SetIamPolicy"
         /\ overwritten # None =>
              /\ overwritten[1] = fetched[1]
              /\ W = policy[1].Bindings

\* the remote policy changes only in the step that issues the SetIamPolicy
RemoteOnlySet ==
    [][remotePolicy' # remotePolicy =>
          /\ gpc = "set"
          /\ gcalls' = Append(gcalls, Call("SetIamPolicy",
                                           SaParent(gargs[1].projectID)))]_vars

\* C15, as stated: every run issues exactly one GetIamPolicy, returns its
\* error without a SetIamPolicy when it fails, and otherwise issues exactly
\* one SetIamPolicy with the whole merged policy and returns an error
\* exactly when that call fails.
C15_Original ==
    gpc = "done" =>
        /\ Cardinality(getsIssued) = 1
        /\ Cardinality(setsIssued) <= 1
        /\ AfterFetch

\* C15, amended: a run whose policy client could not be set up issues no
\* call and returns that error; every other run issues exactly one
\* GetIamPolicy, returns its error without a SetIamPolicy when it fails, and
\* otherwise issues exactly one SetIamPolicy with the whole merged policy,
\* also when the merge changed nothing, and returns an error exactly when
\* that call fails.  The remote policy changes in no other step.
C15_OneGetOneSet ==
    /\ [](gpc = "done" =>
            IF gret.err.op = "iampolicy.NewIamPolicyClient"
            THEN /\ gcalls = <<>>
                 /\ fetched = None
                 /\ overwritten = None
            ELSE /\ Cardinality(getsIssued) = 1
                 /\ Cardinality(setsIssued) <= 1
                 /\ AfterFetch)
    /\ RemoteOnlySet

\* the member was bound to every role of the list already, and the policy
\* is written all the same
C15_Witness ==
    /\ gpc = "done"
    /\ gops = <<"GetIamPolicy", "SetIamPolicy">>
    /\ R # <<>>
    /\ policy[1].Bindings = P
    /\ gret.err = NoPErr
    /\ overwritten # None

\* the policy client could not be set up: the run ends without a call
C15_WitnessNoClient ==
    /\ gpc = "done"
    /\ gcalls = <<>>
    /\ gret.err.op = "iampolicy.NewIamPolicyClient"

\* at most one binding per role, no member twice in a binding
WellFormed(bindings) ==
    /\ \A i, j \in DOMAIN bindings :
         bindings[i].Role = bindings[j].Role => i = j
    /\ \A i \in DOMAIN bindings :
         \A k, l \in DOMAIN bindings[i].Members :
            bindings[i].Members[k] = bindings[i].Members[l] => k = l

\* C17: if the fetched policy has at most one binding per role and no
\* member twice in a binding, so has the written policy, whatever the
\* member and the role list.
C17_InvariantPreserved ==
    (granted /\ WellFormed(P)) => WellFormed(W)

\* the role list names one role twice, the role was not bound, and the
\* member was bound to the other role already
C17_Witness ==
    /\ granted
    /\ WellFormed(P)
    /\ Len(R) = 2
    /\ R[1] = R[2]
    /\ ~HasBinding(P, R[1])
    /\ \E r \in Roles \ {R[1]} : m \in MembersOf(P, r)
    /\ WellFormed(W)

\* ------------------- grantRolesToServiceAccount beside other policy writers
\* the resource starts with an empty policy; grants and other writers fill it
GrantConcInit ==
    /\ EnvIdle
    /\ authr = None
    /\ consErr = "none"
    /\ aconf = Nil
    /\ mapHeap = [r \in {MapRef} |-> <<>>]
    /\ AuthIdle
    /\ ProvIdle
    /\ GrantIdle

GrantConcNext ==
    \/ GrantBegin
    \/ GrantNewClient
    \/ GrantGetPolicy
    \/ GrantMerge
    \/ GrantSetPolicy
    \/ GrantReturn
    \/ ExternalWrite

SpecGrantConc == GrantConcInit /\ [][GrantConcNext]_vars

\* C12: the grant is not atomic against other writers: its successful
\* SetIamPolicy replaces whatever the remote policy has become since the
\* GetIamPolicy with the copy merged from the fetched policy, without
\* comparing etags, so a principal another actor bound in between is bound
\* in the result only if the fetched policy already bound it.
C12_LastWriterWins ==
    [][(gpc = "set" /\ gpc' = "done" /\ gret'.err = NoPErr) =>
          /\ remotePolicy'.Bindings = policy[1].Bindings
          /\ overwritten' = Some(remotePolicy)
          /\ \A r \in Roles :
               MembersOf(remotePolicy'.Bindings, r)
                 \subseteq MembersOf(fetched[1].Bindings, r) \cup {m}]_vars

\* another actor's binding, written after the fetch under a new etag, is
\* gone from the policy this run wrote
C12_Witness ==
    /\ gpc = "done"
    /\ gret.err = NoPErr
    /\ overwritten # None
    /\ overwritten[1].Etag # fetched[1].Etag
    /\ remotePolicy.Bindings = policy[1].Bindings
    /\ \E r \in Roles, x \in OtherPrincipals :
         /\ x \in MembersOf(overwritten[1].Bindings, r)
         /\ x \notin MembersOf(fetched[1].Bindings, r)
         /\ x \notin MembersOf(remotePolicy.Bindings, r)

\* ------------------------------------------------------ environ.Unmarshal
\* Unmarshal is called on a pointer to a fresh struct of some type, in some
\* environment
EnvInit ==
    /\ authr = None
    /\ consErr = "none"
    /\ aconf = Nil
    /\ mapHeap = [r \in {MapRef} |-> <<>>]
    /\ AuthIdle
    /\ ProvIdle
    /\ GrantIdle
    /\ upc = "loop"
    /\ cfgType \in StructTypes
    /\ cfgVal = [k \in DOMAIN cfgType |-> ZeroValue(cfgType[k].kind)]
    /\ osEnv \in Environments
    /\ fieldIdx = 1
    /\ errs = <<>>
    /\ uret = NoURet

EnvNext ==
    \/ UnmField
    \/ UnmReturn

SpecEnv == EnvInit /\ [][EnvNext]_vars

\* ---- what the claims about Unmarshal speak of
unmarshalled == upc = "done" /\ uret.returned

OptionalWords == {"optional", "Optional", "OPTIONAL"}

\* the variable names an env tag lists, and whether it says optional
tagNames(ft) ==
    SelectSeq(ft.tag[1], LAMBDA x : x \notin OptionalWords \cup {","})
tagOptional(ft) == \E j \in DOMAIN ft.tag[1] : ft.tag[1][j] \in OptionalWords
tagged(ft) == ft.tag # None
malformed(ft) == tagged(ft) /\ Len(tagNames(ft)) > 1

\* the value of the variable a well-formed tag names: None when unset
variableOf(ft) == osEnv[<<tagNames(ft)[1]>>]

SupportedKinds == {"string", "bool", "int", "int32", "int64", "float32",
                   "float64"}

\* what strconv makes of a value for a kind of field
parsedAs(kind, val) ==
    CASE kind = "string" -> [val |-> val, err |-> NoConvErr]
      [] kind = "bool" -> ParseBool(val)
      [] kind = "int" -> ParseInt(val, 64)
      [] kind = "int32" -> ParseInt(val, 32)
      [] kind = "int64" -> ParseInt(val, 64)
      [] kind = "float32" -> ParseFloat(val, 32)
      [] kind = "float64" -> ParseFloat(val, 64)

validFor(kind, val) ==
    kind \in SupportedKinds /\ parsedAs(kind, val).err = NoConvErr

\* C13: when every env-tagged field has its variable set to a value valid
\* for the field's type, Unmarshal returns no error, every tagged field holds
\* the value parsed from its variable, and every field without an env tag
\* holds the value it had before.
C13_AllValidAllSet ==
    (/\ unmarshalled
     /\ \A k \in DOMAIN cfgType :
          tagged(cfgType[k]) =>
            /\ ~malformed(cfgType[k])
            /\ variableOf(cfgType[k]) # None
            /\ validFor(cfgType[k].kind, variableOf(cfgType[k])[1]))
    => /\ uret.err = None
       /\ \A k \in DOMAIN cfgType :
            IF tagged(cfgType[k])
            THEN cfgVal[k] =
                   parsedAs(cfgType[k].kind, variableOf(cfgType[k])[1]).val
            ELSE cfgVal[k] = ZeroValue(cfgType[k].kind)

\* ---- fields that fail, told from the struct and the environment alone
\* a field Unmarshal handles: one it can set that carries an env tag
handled(ft) == ft.exported /\ tagged(ft)

missingRequired(ft) ==
    ~malformed(ft) /\ variableOf(ft) = None /\ ~tagOptional(ft)

missingOptional(ft) ==
    ~malformed(ft) /\ variableOf(ft) = None /\ tagOptional(ft)

present(ft) == ~malformed(ft) /\ variableOf(ft) # None

\* the error a handled field fails with; Nil when it does not fail
failure(ft) ==
    IF malformed(ft) THEN "ErrMalformedTag"
    ELSE IF missingRequired(ft) THEN "ErrMissingEnvVariable"
    ELSE IF missingOptional(ft) THEN Nil
    ELSE IF ft.kind \notin SupportedKinds THEN "ErrNotSupportedTypeFound"
    ELSE parsedAs(ft.kind, variableOf(ft)[1]).err

fails(ft) == handled(ft) /\ failure(ft) # Nil

\* the numbers of the failing fields, in field order
failing ==
    SelectSeq([k \in DOMAIN cfgType |-> k], LAMBDA k : fails(cfgType[k]))

C19_WitnessTwoErrors ==
    /\ unmarshalled
    /\ failing = <<1, 2>>
    /\ uret.err # None
    /\ uret.err[1].joined[1].wraps = "ErrMalformedTag"
    /\ uret.err[1].joined[2].wraps = ErrRange

\* an optional field whose variable is missing, between no errors
C19_WitnessOptionalMissing ==
    /\ unmarshalled
    /\ \E k \in DOMAIN cfgType :
         handled(cfgType[k]) /\ missingOptional(cfgType[k])
    /\ uret.err = None

=============================================================================
